---- MODULE Spec2Model ----
(***************************************************************************)
(* Uncertainty-guided peptide mutation (src/llm_redesign.py): the          *)
(* UncertaintyGuidedMutation dataclass, its validation, template and CDR   *)
(* lookups, the masked-position selector, the sequence masker and the      *)
(* re-sampler, as a state machine over one object.                         *)
(*                                                                         *)
(* Conventions.  A Python str is a sequence of one-character strings.  An  *)
(* Optional value is <<>> (None) or <<v>>.  A call's outcome is a record   *)
(* [exc |-> "none" | "ValueError" | "IndexError", val |-> ...].  Python    *)
(* indices are 0-based and kept 0-based; Seq positions are index + 1.      *)
(* Uncertainty scores, the threshold and mask_ratio are fixed-point:       *)
(* uncertainty and threshold in units of 1/UncMax, mask_ratio in percent.  *)
(***************************************************************************)
EXTENDS Integers, Sequences, FiniteSets, TLC

VARIABLES
  self,               \* the dataclass fields
  env,                \* HAS_ABNUMBER and the tokenizer's behaviour
  pc,                 \* position of the caller
  err,                \* [exc, at]: the exception that ended the operation and the step it left
  peptide_seq,        \* run(): local peptide_seq
  input_seq,          \* run(): local input_seq (text)
  input_ids,          \* tokens of input_seq
  uncertainty,        \* run(): local uncertainty, one score per token
  mask_indices,       \* run(): local mask_indices (0-based token indices)
  peptide_start_idx,  \* run(): local peptide_start_idx
  positions_to_mask,  \* run(): local positions_to_mask
  masked_seq,         \* run(): local masked_seq (text)
  generated_sequences,\* run(): local generated_sequences
  model_calls,        \* number of forward passes of the model so far
  loaded,             \* whether __post_init__ loaded the tokenizer and model
  model_input,        \* input_ids given to the model in its latest forward pass
  sampled_ids,        \* generate_mutations: sampled_ids of the latest iteration
  ret                 \* outcome of a method called directly on the object

vars == << self, env, pc, err, peptide_seq, input_seq, input_ids, uncertainty,
           mask_indices, peptide_start_idx, positions_to_mask, masked_seq,
           generated_sequences, model_calls, loaded, model_input, sampled_ids, ret >>

-----------------------------------------------------------------------------
(* Module-level constants of src/llm_redesign.py *)

TEMPLATE_AFFIBODY ==
  <<
     "V", "D", "N", "K", "F", "N", "K", "E", "L", "S", "V", "A", "G", "R", "E",
     "I", "V", "T", "L", "P", "N", "L", "N", "D", "P", "Q", "K", "K", "A", "F",
     "I", "F", "S", "L", "W", "D", "D", "P", "S", "Q", "S", "A", "N", "L", "L",
     "A", "E", "A", "K", "K", "L", "N", "D", "A", "Q", "A", "P", "K" >>

TEMPLATE_NANOBODY ==
  <<
     "A", "Q", "V", "Q", "L", "Q", "E", "S", "G", "G", "G", "L", "V", "Q", "A",
     "G", "G", "S", "L", "R", "L", "S", "C", "A", "A", "S", "E", "R", "T", "F",
     "S", "T", "Y", "A", "M", "G", "W", "F", "R", "Q", "A", "P", "G", "R", "E",
     "R", "E", "F", "L", "A", "Q", "I", "N", "W", "S", "G", "T", "T", "T", "Y",
     "Y", "A", "E", "S", "V", "K", "D", "R", "T", "T", "I", "S", "R", "D", "N",
     "A", "K", "N", "T", "V", "Y", "L", "E", "M", "N", "N", "L", "N", "A", "D",
     "D", "T", "G", "I", "Y", "F", "C", "A", "A", "H", "P", "Q", "R", "G", "W",
     "G", "S", "T", "L", "G", "W", "T", "Y", "W", "G", "Q", "G", "T", "Q", "V",
     "T", "V", "S", "S", "G", "G", "G", "G", "S", "G", "G", "G", "K", "P", "I",
     "P", "N", "P", "L", "L", "G", "L", "D", "S", "T", "R", "T", "G", "H", "H",
     "H", "H", "H", "H" >>

TEMPLATE_AFFITIN ==
  <<
     "M", "R", "G", "S", "H", "H", "H", "H", "H", "H", "G", "S", "V", "K", "V",
     "K", "F", "V", "S", "S", "G", "E", "E", "K", "E", "V", "D", "T", "S", "K",
     "I", "K", "K", "V", "W", "R", "N", "L", "T", "K", "Y", "G", "T", "I", "V",
     "Q", "F", "T", "Y", "D", "D", "N", "G", "K", "T", "G", "R", "G", "Y", "V",
     "R", "E", "L", "D", "A", "P", "K", "E", "L", "L", "D", "M", "L", "A", "R",
     "A", "E", "G", "K", "L", "N" >>

MODALITY_TEMPLATES ==
  [m \in {"affibody", "nanobody", "affitin"} |->
     CASE m = "affibody" -> TEMPLATE_AFFIBODY
       [] m = "nanobody" -> TEMPLATE_NANOBODY
       [] m = "affitin"  -> TEMPLATE_AFFITIN]

\* (start, end) inclusive, 0-indexed
NANOBODY_CDR_REGIONS_IMGT ==
  [c \in {"CDR1", "CDR2", "CDR3"} |->
     CASE c = "CDR1" -> <<26, 35>>
       [] c = "CDR2" -> <<49, 65>>
       [] c = "CDR3" -> <<94, 102>>]

-----------------------------------------------------------------------------
(* Python values *)

\* number of steps of the fixed-point scale: a score is k / UncMax, k in 0..UncMax
UncMax == 2

None == <<>>
Some(v) == <<v>>

Ok(v) == [exc |-> "none", val |-> v]
Raise(e) == [exc |-> e, val |-> <<>>]

Min(a, b) == IF a < b THEN a ELSE b
Max(a, b) == IF a > b THEN a ELSE b

\* range(a, b) as a list
PyRange(a, b) == [i \in 1..Max(0, b - a) |-> a + i - 1]

Elems(s) == {s[i] : i \in 1..Len(s)}

\* sorted(list(set(xs))) for a list of integers, S the set of its elements
SortedSeqOf(S) ==
  IF S = {} THEN <<>>
  ELSE LET lo == CHOOSE x \in S : \A y \in S : x <= y
           hi == CHOOSE x \in S : \A y \in S : x >= y
       IN  SelectSeq(PyRange(lo, hi + 1), LAMBDA x : x \in S)

\* s[a:b] for 0 <= a, b
PySlice(s, a, b) ==
  LET lo == Min(a, Len(s))
      hi == Min(b, Len(s))
  IN  IF hi <= lo THEN <<>> ELSE SubSeq(s, lo + 1, hi)

\* whether sub occurs in s at 0-based offset i
OccursAt(s, sub, i) ==
  /\ i + Len(sub) <= Len(s)
  /\ \A j \in 1..Len(sub) : s[i + j] = sub[j]

\* str.find(sub): lowest 0-based offset of sub in s, -1 when absent
PyFind(s, sub) ==
  LET hits == {i \in 0..Len(s) : OccursAt(s, sub, i)}
  IN  IF hits = {} THEN -1 ELSE CHOOSE i \in hits : \A j \in hits : i <= j

\* list[pos] = v with Python's index rules: -len <= pos < len, negative
\* indices count from the end, anything else is an IndexError
PySetItem(lst, pos, v) ==
  IF pos >= 0 /\ pos < Len(lst) THEN Ok([lst EXCEPT ![pos + 1] = v])
  ELSE IF pos < 0 /\ pos >= -Len(lst) THEN Ok([lst EXCEPT ![Len(lst) + pos + 1] = v])
  ELSE Raise("IndexError")

-----------------------------------------------------------------------------
(* The external tokenizer, language model and numbering library.  Their     *)
(* code is not part of the repository; what the repository's code relies on *)
(* is modelled, and what it cannot know is a field of env.                  *)

EOS == "<eos>"
MASK == "<mask>"
CLS == "<cls>"
SpecialTokens == {EOS, MASK, CLS}

EOS_TEXT == <<"<", "e", "o", "s", ">">>
MASK_TEXT == <<"<", "m", "a", "s", "k", ">">>
CLS_TEXT == <<"<", "c", "l", "s", ">">>

TokenText(t) ==
  CASE t = EOS  -> EOS_TEXT
    [] t = MASK -> MASK_TEXT
    [] t = CLS  -> CLS_TEXT
    [] OTHER    -> <<t>>

\* the special token whose text stands at 0-based offset i of text, "" if none
SpecialAt(text, i) ==
  IF OccursAt(text, EOS_TEXT, i) THEN EOS
  ELSE IF OccursAt(text, MASK_TEXT, i) THEN MASK
  ELSE IF OccursAt(text, CLS_TEXT, i) THEN CLS
  ELSE ""

\* offset i lies inside the text of a special token that starts before it (the
\* texts of special tokens cannot overlap: each starts with its only "<")
InsideSpecial(text, i) ==
  \E j \in Max(0, i - 5)..(i - 1) :
    SpecialAt(text, j) # "" /\ j + Len(TokenText(SpecialAt(text, j))) > i

\* the tokens that start at the 0-based offsets lo..hi-1 of text: the text of a
\* special token is one token, any other character is one token
RECURSIVE TokScan(_, _, _)
TokScan(text, lo, hi) ==
  IF hi <= lo THEN <<>>
  ELSE IF hi = lo + 1 THEN
    IF InsideSpecial(text, lo) THEN <<>>
    ELSE IF SpecialAt(text, lo) # "" THEN <<SpecialAt(text, lo)>>
    ELSE <<text[lo + 1]>>
  ELSE LET mid == (lo + hi) \div 2
       IN  TokScan(text, lo, mid) \o TokScan(text, mid, hi)

\* tokenizer(text)['input_ids'][0]: the tokenizer may put a special token
\* before the text and an <eos> after it (e.tok_prefix, e.tok_suffix)
Tokenize(e, text) ==
  (IF e.tok_prefix THEN <<CLS>> ELSE <<>>)
    \o TokScan(text, 0, Len(text))
    \o (IF e.tok_suffix THEN <<EOS>> ELSE <<>>)

\* the text of the tokens ids[lo..hi] (1-based), special tokens left out when
\* skip
RECURSIVE DecodeRange(_, _, _, _)
DecodeRange(ids, lo, hi, skip) ==
  IF hi < lo THEN <<>>
  ELSE IF hi = lo THEN
    IF skip /\ ids[lo] \in SpecialTokens THEN <<>> ELSE TokenText(ids[lo])
  ELSE LET mid == (lo + hi) \div 2
       IN  DecodeRange(ids, lo, mid, skip) \o DecodeRange(ids, mid + 1, hi, skip)

\* tokenizer.decode(ids, skip_special_tokens=skip), whitespace removed
Decode(ids, skip) == DecodeRange(ids, 1, Len(ids), skip)

\* max_probs of one forward pass over n tokens, in units of 1/UncMax: the
\* pretrained model is a fixed function, e.model_profile, repeated over the
\* positions
ModelMaxProbs(e, n) ==
  [i \in 1..n |-> e.model_profile[((i - 1) % Len(e.model_profile)) + 1]]

\* Chain(seq, scheme='imgt').cdrN_seq: a substring of seq, possibly empty
ChainCdrSeq(e, seq, name) ==
  LET w == e.chain.cdr[name]
  IN  PySlice(seq, w[1], w[1] + w[2])

-----------------------------------------------------------------------------
(* Methods of UncertaintyGuidedMutation, s the object's fields, e the      *)
(* environment                                                             *)

\* faulty variant: the validation forgets use_template
post_init_validate_ignores_template(s) ==
  IF s.temp_pept_seq = <<>> THEN Raise("ValueError") ELSE Ok(TRUE)

\* __post_init__, the validation before the tokenizer and model are loaded
post_init_validate(s) ==
  IF s.temp_pept_seq = <<>> /\ ~s.use_template THEN Raise("ValueError") ELSE Ok(TRUE)

\* faulty variant: the modality's template wins over custom_template
get_template_sequence_modality_first(s) ==
  IF s.modality \in DOMAIN MODALITY_TEMPLATES THEN Ok(MODALITY_TEMPLATES[s.modality])
  ELSE IF s.custom_template # None THEN Ok(s.custom_template[1])
  ELSE Raise("ValueError")

get_template_sequence(s) ==
  IF s.custom_template # None THEN Ok(s.custom_template[1])
  ELSE IF s.modality \in DOMAIN MODALITY_TEMPLATES THEN Ok(MODALITY_TEMPLATES[s.modality])
  ELSE Raise("ValueError")

\* faulty variant: a given temp_pept_seq wins over the template
get_peptide_sequence_prefers_given(s) ==
  IF s.temp_pept_seq # <<>> THEN Ok(s.temp_pept_seq)
  ELSE IF s.use_template THEN get_template_sequence(s)
  ELSE Raise("ValueError")

get_peptide_sequence(s) ==
  IF s.use_template THEN get_template_sequence(s)
  ELSE IF s.temp_pept_seq = <<>> THEN Raise("ValueError")
  ELSE Ok(s.temp_pept_seq)

\* the residues of the requested regions, in request order, before
\* sorted(list(set(...)))
RECURSIVE FallbackResidues(_)
FallbackResidues(regions) ==
  IF regions = <<>> THEN {}
  ELSE LET d == NANOBODY_CDR_REGIONS_IMGT[Head(regions)]
       IN  Elems(PyRange(d[1], d[2] + 1)) \cup FallbackResidues(Tail(regions))

get_cdr_residues_fallback(s) ==
  LET regions == s.nanobody_cdr_regions[1]
  IN  IF \E i \in 1..Len(regions) : regions[i] \notin DOMAIN NANOBODY_CDR_REGIONS_IMGT
      THEN Raise("ValueError")
      ELSE Ok(SortedSeqOf(FallbackResidues(regions)))

RECURSIVE AbnumberResidues(_, _, _)
AbnumberResidues(e, nanobody_seq, regions) ==
  IF regions = <<>> THEN {}
  ELSE LET cdr_seq == ChainCdrSeq(e, nanobody_seq, Head(regions))
           start_idx == PyFind(nanobody_seq, cdr_seq)
           end_idx == start_idx + Len(cdr_seq) - 1
           found == IF cdr_seq # <<>> /\ start_idx # -1
                    THEN Elems(PyRange(start_idx, end_idx + 1)) ELSE {}
       IN  found \cup AbnumberResidues(e, nanobody_seq, Tail(regions))

\* faulty variant: an exception of the numbering library is not caught
get_cdr_residues_abnumber_propagates(s, e, nanobody_seq) ==
  LET regions == s.nanobody_cdr_regions[1]
  IN  IF e.chain.raises THEN Raise("Exception")
      ELSE IF \E i \in 1..Len(regions) : regions[i] \notin {"CDR1", "CDR2", "CDR3"}
      THEN get_cdr_residues_fallback(s)
      ELSE Ok(SortedSeqOf(AbnumberResidues(e, nanobody_seq, regions)))

\* faulty variant: an unknown region name is skipped instead of raising
get_cdr_residues_abnumber_skips_unknown(s, e, nanobody_seq) ==
  LET regions == SelectSeq(s.nanobody_cdr_regions[1],
                           LAMBDA r : r \in {"CDR1", "CDR2", "CDR3"})
  IN  IF e.chain.raises THEN get_cdr_residues_fallback(s)
      ELSE Ok(SortedSeqOf(AbnumberResidues(e, nanobody_seq, regions)))

get_cdr_residues_abnumber(s, e, nanobody_seq) ==
  LET regions == s.nanobody_cdr_regions[1]
  IN  IF e.chain.raises THEN get_cdr_residues_fallback(s)
      ELSE IF \E i \in 1..Len(regions) : regions[i] \notin {"CDR1", "CDR2", "CDR3"}
      THEN get_cdr_residues_fallback(s)
      ELSE Ok(SortedSeqOf(AbnumberResidues(e, nanobody_seq, regions)))

get_nanobody_cdr_residues(s, e) ==
  IF s.modality # "nanobody" THEN Raise("ValueError")
  ELSE IF s.nanobody_cdr_regions = None THEN Raise("ValueError")
  ELSE LET p == get_peptide_sequence(s)
       IN  IF p.exc # "none" THEN p
           ELSE IF e.HAS_ABNUMBER THEN get_cdr_residues_abnumber(s, e, p.val)
           ELSE get_cdr_residues_fallback(s)

\* _identify_cdrs_fallback: the dictionary CDR name -> (start, end, sequence)
\* from the hardcoded positions
identify_cdrs_fallback(nanobody_seq) ==
  [c \in DOMAIN NANOBODY_CDR_REGIONS_IMGT |->
     LET start == NANOBODY_CDR_REGIONS_IMGT[c][1]
         end == NANOBODY_CDR_REGIONS_IMGT[c][2]
     IN  IF end < Len(nanobody_seq)
         THEN <<start, end, PySlice(nanobody_seq, start, end + 1)>>
         ELSE LET actual_end == Min(end, Len(nanobody_seq) - 1)
              IN  <<start, actual_end, PySlice(nanobody_seq, start, actual_end + 1)>>]

\* _identify_cdrs_abnumber: the CDRs the library reports and str.find locates
identify_cdrs_abnumber(e, nanobody_seq) ==
  IF e.chain.raises THEN identify_cdrs_fallback(nanobody_seq)
  ELSE LET found == {c \in {"CDR1", "CDR2", "CDR3"} :
                       /\ ChainCdrSeq(e, nanobody_seq, c) # <<>>
                       /\ PyFind(nanobody_seq, ChainCdrSeq(e, nanobody_seq, c)) # -1}
       IN  [c \in found |->
              LET cdr_seq == ChainCdrSeq(e, nanobody_seq, c)
                  start_idx == PyFind(nanobody_seq, cdr_seq)
              IN  <<start_idx, start_idx + Len(cdr_seq) - 1, cdr_seq>>]

identify_nanobody_cdrs(e, nanobody_seq) ==
  IF e.HAS_ABNUMBER THEN identify_cdrs_abnumber(e, nanobody_seq)
  ELSE identify_cdrs_fallback(nanobody_seq)

\* faulty variant: the residue indices are taken as 1-based
convert_residue_indices_one_based(residue_indices, start_idx) ==
  [i \in 1..Len(residue_indices) |-> start_idx + residue_indices[i] - 1]

convert_residue_indices_to_token_indices(residue_indices, start_idx) ==
  [i \in 1..Len(residue_indices) |-> start_idx + residue_indices[i]]

\* input_ids[0] != mask_token_id, torch.where(...)[0].tolist(): the 0-based
\* indices of the tokens that are not the mask token, ascending
NonMaskIndices(ids) ==
  SelectSeq(PyRange(0, Len(ids)), LAMBDA i : ids[i + 1] # MASK)

\* get_logprobs(seq): (max_probs, mask_indices); logprobs is not used by run()
get_logprobs(e, seq) ==
  LET ids == Tokenize(e, seq)
  IN  [probs |-> ModelMaxProbs(e, Len(ids)), mask_indices |-> NonMaskIndices(ids)]

\* 1.0 - probs, in units of 1/UncMax
compute_uncertainty(probs) ==
  [i \in DOMAIN probs |-> UncMax - probs[i]]

\* input_ids.index(eos_token_id) + 1, or len(input_ids) // 2 when there is
\* no <eos> token
find_peptide_start_idx(e, seq) ==
  LET ids == Tokenize(e, seq)
      hits == {i \in 0..(Len(ids) - 1) : ids[i + 1] = EOS}
  IN  IF hits # {} THEN (CHOOSE i \in hits : \A j \in hits : i <= j) + 1
      ELSE Len(ids) \div 2

\* int(x) of the product n * mask_ratio, mask_ratio in percent (n >= 0)
IntOfProduct(n, ratio) ==
  IF ratio >= 0 THEN (n * ratio) \div 100 ELSE -(((n * (-ratio))) \div 100)

Reverse(xs) == [i \in 1..Len(xs) |-> xs[Len(xs) - i + 1]]

\* the (0-based) places of vals in the order of torch.topk, from the places of
\* value v down: the larger value first, equal values as e.topk_ties says
RECURSIVE TopKOrder(_, _, _)
TopKOrder(e, vals, v) ==
  IF v < 0 THEN <<>>
  ELSE LET level == SelectSeq(PyRange(0, Len(vals)), LAMBDA i : vals[i + 1] = v)
       IN  (IF e.topk_ties = "low" THEN level ELSE Reverse(level))
             \o TopKOrder(e, vals, v - 1)

\* torch.topk(vals, k).indices: the places of the k largest values, largest
\* first (scores are 0..UncMax)
TorchTopK(e, vals, k) == SubSeq(TopKOrder(e, vals, UncMax), 1, Min(k, Len(vals)))

\* [x for x in xs if uncertainty[x] > threshold]
AboveThreshold(unc, xs, threshold) ==
  SelectSeq(xs, LAMBDA x : unc[x + 1] > threshold)

\* [idx for idx in mask_indices if idx >= peptide_start_idx]
FromIndex(xs, start) == SelectSeq(xs, LAMBDA x : x >= start)

PeptideMaskIndices(mask_idx, start_opt) ==
  IF start_opt # None THEN FromIndex(mask_idx, start_opt[1]) ELSE mask_idx

\* [x for x in xs if uncertainty[x] >= threshold]
AtOrAboveThreshold(unc, xs, threshold) ==
  SelectSeq(xs, LAMBDA x : unc[x + 1] >= threshold)

\* faulty variant: top_k without the floor of one position
select_by_strategy_no_floor(s, e, unc, cand) ==
  IF s.mask_strategy = "top_k" THEN
    LET n_mask == IntOfProduct(Len(cand), s.mask_ratio)
        top == TorchTopK(e, [i \in 1..Len(cand) |-> unc[cand[i] + 1]],
                         Min(n_mask, Len(cand)))
    IN  Ok([i \in 1..Len(top) |-> cand[top[i] + 1]])
  ELSE IF s.mask_strategy = "threshold" THEN
    Ok(AboveThreshold(unc, cand, s.uncertainty_threshold))
  ELSE IF s.mask_strategy = "entropy" THEN
    Ok(<<cand[1]>>)
  ELSE Raise("ValueError")

\* faulty variant: the threshold is inclusive
select_by_strategy_inclusive(s, e, unc, cand) ==
  IF s.mask_strategy = "top_k" THEN
    LET n_mask == Max(1, IntOfProduct(Len(cand), s.mask_ratio))
        top == TorchTopK(e, [i \in 1..Len(cand) |-> unc[cand[i] + 1]],
                         Min(n_mask, Len(cand)))
    IN  Ok([i \in 1..Len(top) |-> cand[top[i] + 1]])
  ELSE IF s.mask_strategy = "threshold" THEN
    Ok(AtOrAboveThreshold(unc, cand, s.uncertainty_threshold))
  ELSE IF s.mask_strategy = "entropy" THEN
    Ok(<<cand[1]>>)
  ELSE Raise("ValueError")

\* faulty variant: an unknown strategy is treated like the placeholder
select_by_strategy_default(s, e, unc, cand) ==
  IF s.mask_strategy = "top_k" THEN
    LET n_mask == Max(1, IntOfProduct(Len(cand), s.mask_ratio))
        top == TorchTopK(e, [i \in 1..Len(cand) |-> unc[cand[i] + 1]],
                         Min(n_mask, Len(cand)))
    IN  Ok([i \in 1..Len(top) |-> cand[top[i] + 1]])
  ELSE IF s.mask_strategy = "threshold" THEN
    Ok(AboveThreshold(unc, cand, s.uncertainty_threshold))
  ELSE Ok(<<cand[1]>>)

\* the mask_strategy part of select_positions_to_mask, cand the non-empty
\* peptide_mask_indices
select_by_strategy(s, e, unc, cand) ==
  IF s.mask_strategy = "top_k" THEN
    LET n_mask == Max(1, IntOfProduct(Len(cand), s.mask_ratio))
        top == TorchTopK(e, [i \in 1..Len(cand) |-> unc[cand[i] + 1]],
                         Min(n_mask, Len(cand)))
    IN  Ok([i \in 1..Len(top) |-> cand[top[i] + 1]])
  ELSE IF s.mask_strategy = "threshold" THEN
    Ok(AboveThreshold(unc, cand, s.uncertainty_threshold))
  ELSE IF s.mask_strategy = "entropy" THEN
    Ok(<<cand[1]>>)
  ELSE Raise("ValueError")

\* faulty variant: residues_to_mutate is looked at before the CDR regions
select_positions_to_mask_residues_first(s, e, unc, mask_idx, start_opt) ==
  IF s.residues_to_mutate # None THEN
    IF start_opt = None THEN Raise("ValueError")
    ELSE Ok(convert_residue_indices_to_token_indices(s.residues_to_mutate[1], start_opt[1]))
  ELSE IF s.nanobody_cdr_regions # None /\ s.modality = "nanobody" THEN
    IF start_opt = None THEN Raise("ValueError")
    ELSE LET cdr == get_nanobody_cdr_residues(s, e)
         IN  IF cdr.exc # "none" THEN cdr
             ELSE Ok(convert_residue_indices_to_token_indices(cdr.val, start_opt[1]))
  ELSE LET cand == PeptideMaskIndices(mask_idx, start_opt)
       IN  IF cand = <<>> THEN Ok(<<>>)
           ELSE select_by_strategy(s, e, unc, cand)

\* select_positions_to_mask(uncertainty, mask_indices, peptide_start_idx),
\* start_opt the Optional peptide_start_idx
select_positions_to_mask(s, e, unc, mask_idx, start_opt) ==
  IF s.nanobody_cdr_regions # None /\ s.modality = "nanobody" THEN
    IF start_opt = None THEN Raise("ValueError")
    ELSE LET cdr == get_nanobody_cdr_residues(s, e)
         IN  IF cdr.exc # "none" THEN cdr
             ELSE Ok(convert_residue_indices_to_token_indices(cdr.val, start_opt[1]))
  ELSE IF s.residues_to_mutate # None THEN
    IF start_opt = None THEN Raise("ValueError")
    ELSE Ok(convert_residue_indices_to_token_indices(s.residues_to_mutate[1], start_opt[1]))
  ELSE LET cand == PeptideMaskIndices(mask_idx, start_opt)
       IN  IF cand = <<>> THEN Ok(<<>>)
           ELSE select_by_strategy(s, e, unc, cand)

\* faulty variant: the loop over the positions ends after the first one
MaskPositions_first_only(ids, positions) ==
  IF positions = <<>> THEN Ok(ids) ELSE PySetItem(ids, Head(positions), MASK)

\* for pos in positions_to_mask: input_ids[pos] = mask_token_id
RECURSIVE MaskPositions(_, _)
MaskPositions(ids, positions) ==
  IF positions = <<>> THEN Ok(ids)
  ELSE LET r == PySetItem(ids, Head(positions), MASK)
       IN  IF r.exc # "none" THEN r ELSE MaskPositions(r.val, Tail(positions))

\* faulty variant: the masked tokens are decoded without the special tokens
create_masked_sequence_skip_special(e, seq, positions) ==
  LET r == MaskPositions(Tokenize(e, seq), positions)
  IN  IF r.exc # "none" THEN r ELSE Ok(Decode(r.val, TRUE))

create_masked_sequence(e, seq, positions) ==
  LET r == MaskPositions(Tokenize(e, seq), positions)
  IN  IF r.exc # "none" THEN r ELSE Ok(Decode(r.val, FALSE))

\* faulty variant: the loop runs once more than n_seq_out
loop_continues_inclusive(s, done) == done <= s.n_seq_out

\* for _ in range(self.n_seq_out): whether another iteration follows the
\* done ones
loop_continues(s, done) == done < s.n_seq_out

\* faulty variant: the model is given the input with all masked places but
\* the last filled by the sampled tokens
generate_model_input_filled(ids, sample) ==
  LET masks == {i \in 1..Len(ids) : ids[i] = MASK}
  IN  [i \in 1..Len(ids) |->
         IF ids[i] = MASK /\ \E j \in masks : j > i THEN sample[i] ELSE ids[i]]

\* outputs = self.model(input_ids=input_ids, ...): what the one forward pass
\* of an iteration is given; sample is not looked at
generate_model_input(ids, sample) == ids

\* faulty variant: every token is drawn again
sample_ids_everywhere(ids, sample) == [i \in 1..Len(ids) |-> sample[i]]

\* sampled_ids of one iteration: a clone of input_ids with the masked places
\* replaced by the sampled tokens; sample maps each place to the token drawn
\* for it
sample_ids(ids, sample) ==
  [i \in 1..Len(ids) |-> IF ids[i] = MASK THEN sample[i] ELSE ids[i]]

\* one iteration of generate_mutations' loop: sampled_ids decoded without its
\* special tokens
generate_one(ids, sample) == Decode(sample_ids(ids, sample), TRUE)

-----------------------------------------------------------------------------
(* Generate.mask_inp_ab of src/OLD/generate.py, g the object's attributes *)

\* a slice bound as Python reads it on a string of length n: a negative bound
\* counts from the end, every bound is clipped to 0..n
PyBound(n, i) == IF i < 0 THEN Max(0, n + i) ELSE Min(i, n)

\* s[:b] and s[a:]
PyPrefix(s, b) == SubSeq(s, 1, PyBound(Len(s), b))
PySuffix(s, a) == SubSeq(s, PyBound(Len(s), a) + 1, Len(s))

\* '<mask>' * n
RECURSIVE MaskText(_)
MaskText(n) == IF n <= 0 THEN <<>> ELSE MASK_TEXT \o MaskText(n - 1)

\* one iteration of the loop of mask_inp_ab
mask_one_cdr(g, cdrid) ==
  LET cdrseq == g.cdrdict[cdrid]
  IN  IF cdrid \in g.cdrs_heavy THEN
        LET cdrseq_st == PyFind(g.H_seq, cdrseq)
            cdrseq_end == cdrseq_st + Len(cdrseq) - 1
        IN  [g EXCEPT !.H_seq = PyPrefix(g.H_seq, cdrseq_st) \o MaskText(Len(cdrseq))
                                  \o PySuffix(g.H_seq, cdrseq_end)]
      ELSE IF cdrid \in g.cdrs_light THEN
        LET cdrseq_st == PyFind(g.L_seq, cdrseq)
            cdrseq_end == cdrseq_st + Len(cdrseq)
        IN  [g EXCEPT !.L_seq = PyPrefix(g.L_seq, cdrseq_st) \o MaskText(Len(cdrseq))
                                  \o PySuffix(g.L_seq, cdrseq_end)]
      ELSE g

\* for cdrid in self.cdrs_mut: ..., ids the CDR ids still to come
RECURSIVE mask_inp_ab(_, _)
mask_inp_ab(g, ids) ==
  IF ids = <<>> THEN g ELSE mask_inp_ab(mask_one_cdr(g, Head(ids)), Tail(ids))

-----------------------------------------------------------------------------
(* The objects and environments the model is run on *)

\* length of the repeated profile of model outputs
ProfileLen == 2
\* the tokens sampled for the masked places repeat with this period
SamplePeriod == 1
\* largest n_seq_out
MaxSeqOut == 2

MK == <<"M", "K">>
HE == <<"H", "E">>
HEL == <<"H", "E", "L">>
HELV == <<"H", "E", "L", "V">>
MYOWN == <<"M", "Y", "O", "W", "N">>

\* tokens torch.multinomial may draw: a residue or a special token
SampleVocab == {"A", EOS}

DefaultSelf ==
  [target_seq |-> MK, temp_pept_seq |-> HELV, modality |-> "custom", n_seq_out |-> 1,
   mask_strategy |-> "top_k", mask_ratio |-> 30, uncertainty_threshold |-> 1,
   use_template |-> FALSE, custom_template |-> None, residues_to_mutate |-> None,
   nanobody_cdr_regions |-> None]

\* what Chain(...) does: raises, or yields the three CDR windows
\* (0-based start, length)
ChainRaises ==
  [raises |-> TRUE, cdr |-> [c \in {"CDR1", "CDR2", "CDR3"} |-> <<0, 0>>]]
ChainImgt ==
  [raises |-> FALSE,
   cdr |-> [c \in {"CDR1", "CDR2", "CDR3"} |->
              CASE c = "CDR1" -> <<26, 8>> [] c = "CDR2" -> <<51, 8>> [] c = "CDR3" -> <<97, 16>>]]
ChainShort ==
  [raises |-> FALSE,
   cdr |-> [c \in {"CDR1", "CDR2", "CDR3"} |->
              CASE c = "CDR1" -> <<0, 1>> [] c = "CDR2" -> <<1, 2>> [] c = "CDR3" -> <<3, 0>>]]

DefaultEnv ==
  [HAS_ABNUMBER |-> FALSE, tok_prefix |-> FALSE, tok_suffix |-> FALSE,
   model_profile |-> <<1, 0, 2>>, topk_ties |-> "low", chain |-> ChainRaises]

Profiles == [1..ProfileLen -> 0..UncMax]

\* the numbering library: absent, or present with one of its behaviours
LibraryEnvs ==
  {DefaultEnv} \cup
  {[DefaultEnv EXCEPT !.HAS_ABNUMBER = TRUE, !.chain = c] :
     c \in {ChainRaises, ChainImgt, ChainShort}}

TokenizerEnvs(E) ==
  {[e EXCEPT !.tok_prefix = p, !.tok_suffix = x] : e \in E, p \in BOOLEAN, x \in BOOLEAN}
SuffixEnvs(E) == {[e EXCEPT !.tok_suffix = x] : e \in E, x \in BOOLEAN}

\* which selection rule is in effect
RuleSelfs ==
  {[DefaultSelf EXCEPT !.modality = m, !.use_template = u, !.residues_to_mutate = r,
                       !.nanobody_cdr_regions = c, !.mask_strategy = st] :
     m \in {"nanobody", "custom"}, u \in BOOLEAN,
     r \in {None, Some(<<0, 2>>), Some(<<3, 0>>), Some(<<4>>)},
     c \in {None, Some(<<"CDR1">>), Some(<<"CDR3", "CDR1">>), Some(<<"CDR9">>)},
     st \in {"top_k", "threshold", "entropy", "random"}}

RuleScenarios == RuleSelfs \X (TokenizerEnvs({DefaultEnv}) \cup LibraryEnvs)

\* the mask_ratio next to the CDR rule
RatioSelfs ==
  {[DefaultSelf EXCEPT !.modality = "nanobody", !.use_template = TRUE,
                       !.nanobody_cdr_regions = c, !.mask_ratio = q] :
     c \in {Some(<<"CDR1", "CDR2", "CDR3">>), Some(<<"CDR2">>)},
     q \in {15, 30, 100}}

RatioScenarios == RatioSelfs \X LibraryEnvs

\* the uncertainty strategies
TopKSelfs ==
  {[DefaultSelf EXCEPT !.temp_pept_seq = p, !.mask_ratio = q] :
     p \in {HE, HEL, HELV}, q \in {0, 30, 50, 100, 150}}
ThresholdSelfs ==
  {[DefaultSelf EXCEPT !.temp_pept_seq = p, !.mask_strategy = "threshold",
                       !.uncertainty_threshold = t] :
     p \in {HE, HEL, HELV}, t \in 0..UncMax}
OtherStrategySelfs ==
  {[DefaultSelf EXCEPT !.temp_pept_seq = p, !.mask_strategy = st] :
     p \in {HE, HELV}, st \in {"entropy", "random"}}

ProfileEnvs == {[DefaultEnv EXCEPT !.model_profile = f] : f \in Profiles}
TieEnvs(E) == {[e EXCEPT !.topk_ties = t] : e \in E, t \in {"low", "high"}}

StrategyScenarios ==
  (TopKSelfs \X TieEnvs(SuffixEnvs(ProfileEnvs)))
    \cup (ThresholdSelfs \X SuffixEnvs(ProfileEnvs))
    \cup (OtherStrategySelfs \X SuffixEnvs({DefaultEnv}))

\* construction, templates and CDR lookup
LookupSelfs ==
  {[DefaultSelf EXCEPT !.modality = m, !.use_template = u, !.custom_template = ct,
                       !.temp_pept_seq = p, !.nanobody_cdr_regions = c] :
     m \in {"affibody", "nanobody", "affitin", "custom"}, u \in BOOLEAN,
     ct \in {None, Some(MYOWN)}, p \in {<<>>, HELV},
     c \in {None, Some(<<"CDR1">>), Some(<<"CDR3", "CDR1">>), Some(<<"CDR1", "CDR4">>),
            Some(<<"CDR1", "CDR2", "CDR3">>)}}

LookupScenarios == LookupSelfs \X LibraryEnvs

\* the number of sequences to generate
CountSelfs ==
  {[DefaultSelf EXCEPT !.n_seq_out = n, !.mask_ratio = q, !.mask_strategy = st,
                       !.uncertainty_threshold = UncMax] :
     n \in (-1)..MaxSeqOut, q \in {50}, st \in {"top_k", "threshold"}}

CountScenarios == CountSelfs \X TokenizerEnvs({DefaultEnv})

\* the sequences identify_nanobody_cdrs is called with: the nanobody
\* template, two truncations of it and a short peptide
NanobodySeqs ==
  {TEMPLATE_NANOBODY, PySlice(TEMPLATE_NANOBODY, 0, 100),
   PySlice(TEMPLATE_NANOBODY, 0, 30), HELV}

\* the positions create_masked_sequence is called with on target<eos>peptide:
\* none, one, several in any order and repeated, the last token, one outside
PositionLists == {<<>>, <<0>>, <<4, 3, 4>>, <<6>>, <<9>>}

\* the antibody chains Generate is constructed with
HEAVY == <<"E", "V", "Q", "L", "G", "F", "T", "A", "R", "W">>
LIGHT == <<"D", "I", "Q", "M", "S", "Y", "N", "K", "P", "T">>

\* longest first CDR of a chain
MaxCdrLen == 3

\* the first CDR of a chain: any stretch of 1..MaxCdrLen residues that starts
\* at one of the first three residues; the third CDR is residues 7 and 8
FirstCdrs(chain) == {PySlice(chain, a, a + n) : a \in 0..2, n \in 1..MaxCdrLen}

GenerateSelfs ==
  {[target_seq |-> HEAVY, original_petide |-> LIGHT, mut_index |-> m,
    n_seq_out |-> 1, H_seq |-> HEAVY, L_seq |-> LIGHT, cdrs_mut |-> m,
    cdrs_heavy |-> {"CDRH1", "CDRH3"}, cdrs_light |-> {"CDRL1", "CDRL3"},
    cdrdict |-> [c \in {"CDRH1", "CDRH3", "CDRL1", "CDRL3"} |->
                   CASE c = "CDRH1" -> h
                     [] c = "CDRH3" -> PySlice(HEAVY, 7, 9)
                     [] c = "CDRL1" -> l
                     [] c = "CDRL3" -> PySlice(LIGHT, 7, 9)]] :
     m \in {<<>>, <<"CDRH1">>, <<"CDRL1">>, <<"CDRL3", "CDRL1">>, <<"CDRH1", "CDRL1">>,
            <<"CDRH1", "CDRH3">>},
     h \in FirstCdrs(HEAVY), l \in FirstCdrs(LIGHT)}

Scenarios ==
  RuleScenarios \cup RatioScenarios \cup StrategyScenarios \cup LookupScenarios
    \cup CountScenarios

-----------------------------------------------------------------------------
(* The state machine: construction, then either run() step by step or one  *)
(* method called directly on the object                                    *)

NoRet == [op |-> "none", arg |-> <<>>, out |-> Ok(<<>>)]
NoErr == [exc |-> "none", at |-> "none"]
RaisedAt(r, step) == [exc |-> r.exc, at |-> step]

Init ==
  /\ \E sc \in Scenarios : self = sc[1] /\ env = sc[2]
  /\ pc = "new"
  /\ err = NoErr
  /\ peptide_seq = <<>>
  /\ input_seq = <<>>
  /\ input_ids = <<>>
  /\ uncertainty = <<>>
  /\ mask_indices = <<>>
  /\ peptide_start_idx = 0
  /\ positions_to_mask = <<>>
  /\ masked_seq = <<>>
  /\ generated_sequences = <<>>
  /\ model_calls = 0
  /\ loaded = FALSE
  /\ model_input = <<>>
  /\ sampled_ids = <<>>
  /\ ret = NoRet

\* __post_init__: validation, then the tokenizer and the model are loaded
PostInit ==
  /\ pc = "new"
  /\ LET r == post_init_validate(self)
     IN  IF r.exc # "none"
         THEN pc' = "raised" /\ err' = RaisedAt(r, "post_init") /\ loaded' = FALSE
         ELSE pc' = "ready" /\ err' = err /\ loaded' = TRUE
  /\ UNCHANGED << self, env, peptide_seq, input_seq, input_ids, uncertainty, mask_indices,
                  peptide_start_idx, positions_to_mask, masked_seq, generated_sequences,
                  model_calls, ret,
                  model_input, sampled_ids >>

\* run(), steps 0 and 1: peptide_seq and input_seq
RunGetPeptideSequence ==
  /\ pc = "ready"
  /\ LET r == get_peptide_sequence(self)
     IN  IF r.exc # "none"
         THEN /\ pc' = "raised" /\ err' = RaisedAt(r, "get_peptide_sequence")
              /\ UNCHANGED << peptide_seq, input_seq >>
         ELSE /\ pc' = "run_logprobs" /\ err' = err
              /\ peptide_seq' = r.val
              /\ input_seq' = self.target_seq \o EOS_TEXT \o r.val
  /\ UNCHANGED << self, env, input_ids, uncertainty, mask_indices, peptide_start_idx,
                  positions_to_mask, masked_seq, generated_sequences, model_calls,
                  loaded, ret,
                  model_input, sampled_ids >>

\* run(), step 2: get_logprobs and compute_uncertainty
RunGetLogprobs ==
  /\ pc = "run_logprobs"
  /\ LET r == get_logprobs(env, input_seq)
     IN  /\ input_ids' = Tokenize(env, input_seq)
         /\ uncertainty' = compute_uncertainty(r.probs)
         /\ mask_indices' = r.mask_indices
  /\ model_input' = Tokenize(env, input_seq)
  /\ model_calls' = model_calls + 1
  /\ pc' = "run_find"
  /\ UNCHANGED << self, env, err, peptide_seq, input_seq, peptide_start_idx,
                  positions_to_mask, masked_seq, generated_sequences, loaded, ret,
                  sampled_ids >>

\* run(), step 3
RunFindPeptideStartIdx ==
  /\ pc = "run_find"
  /\ peptide_start_idx' = find_peptide_start_idx(env, input_seq)
  /\ pc' = "run_select"
  /\ UNCHANGED << self, env, err, peptide_seq, input_seq, input_ids, uncertainty,
                  mask_indices, positions_to_mask, masked_seq, generated_sequences,
                  model_calls, loaded, ret,
                  model_input, sampled_ids >>

\* run(), step 4
RunSelectPositionsToMask ==
  /\ pc = "run_select"
  /\ LET r == select_positions_to_mask(self, env, uncertainty, mask_indices,
                                       Some(peptide_start_idx))
     IN  IF r.exc # "none"
         THEN /\ pc' = "raised" /\ err' = RaisedAt(r, "select_positions_to_mask")
              /\ UNCHANGED positions_to_mask
         ELSE /\ pc' = "run_mask" /\ err' = err
              /\ positions_to_mask' = r.val
  /\ UNCHANGED << self, env, peptide_seq, input_seq, input_ids, uncertainty, mask_indices,
                  peptide_start_idx, masked_seq, generated_sequences, model_calls,
                  loaded, ret,
                  model_input, sampled_ids >>

\* run(), step 5
RunCreateMaskedSequence ==
  /\ pc = "run_mask"
  /\ LET r == create_masked_sequence(env, input_seq, positions_to_mask)
     IN  IF r.exc # "none"
         THEN /\ pc' = "raised" /\ err' = RaisedAt(r, "create_masked_sequence")
              /\ UNCHANGED masked_seq
         ELSE /\ pc' = "run_generate" /\ err' = err
              /\ masked_seq' = r.val
  /\ UNCHANGED << self, env, peptide_seq, input_seq, input_ids, uncertainty, mask_indices,
                  peptide_start_idx, positions_to_mask, generated_sequences, model_calls,
                  loaded, ret,
                  model_input, sampled_ids >>

\* run(), step 6: one iteration of generate_mutations' loop
RunGenerateOne ==
  /\ pc = "run_generate"
  /\ loop_continues(self, Len(generated_sequences))
  /\ \E ids \in {Tokenize(env, masked_seq)} :
       \E f \in [1..SamplePeriod -> SampleVocab] :
         LET sample == [i \in 1..Len(ids) |-> f[((i - 1) % SamplePeriod) + 1]]
         IN  /\ model_input' = generate_model_input(ids, sample)
             /\ sampled_ids' = sample_ids(ids, sample)
             /\ generated_sequences' = Append(generated_sequences, generate_one(ids, sample))
  /\ model_calls' = model_calls + 1
  /\ UNCHANGED << self, env, pc, err, peptide_seq, input_seq, input_ids, uncertainty,
                  mask_indices, peptide_start_idx, positions_to_mask, masked_seq,
                  loaded, ret >>

\* run(): the loop is over, the result dictionary is returned
RunReturn ==
  /\ pc = "run_generate"
  /\ ~loop_continues(self, Len(generated_sequences))
  /\ pc' = "returned"
  /\ UNCHANGED << self, env, err, peptide_seq, input_seq, input_ids, uncertainty,
                  mask_indices, peptide_start_idx, positions_to_mask, masked_seq,
                  generated_sequences, model_calls, loaded, ret,
                  model_input, sampled_ids >>

\* a method called directly on the constructed object
Called(op, arg, out) ==
  /\ pc = "ready"
  /\ pc' = "called"
  /\ ret' = [op |-> op, arg |-> arg, out |-> out]
  /\ UNCHANGED << self, env, err, peptide_seq, input_seq, input_ids, uncertainty,
                  mask_indices, peptide_start_idx, positions_to_mask, masked_seq,
                  generated_sequences, model_calls, loaded,
                  model_input, sampled_ids >>

CallGetTemplateSequence ==
  Called("get_template_sequence", <<>>, get_template_sequence(self))

CallGetPeptideSequence ==
  Called("get_peptide_sequence", <<>>, get_peptide_sequence(self))

CallGetNanobodyCdrResidues ==
  Called("get_nanobody_cdr_residues", <<>>, get_nanobody_cdr_residues(self, env))

\* find_peptide_start_idx on a text with or without the <eos> separator
CallFindPeptideStartIdx ==
  \E seq \in {self.target_seq \o EOS_TEXT \o self.temp_pept_seq,
              self.target_seq \o self.temp_pept_seq} :
    Called("find_peptide_start_idx", <<seq>>, Ok(find_peptide_start_idx(env, seq)))

\* select_positions_to_mask without its optional peptide_start_idx
CallSelectPositionsToMask ==
  LET seq == self.target_seq \o EOS_TEXT \o self.temp_pept_seq
      r == get_logprobs(env, seq)
      unc == compute_uncertainty(r.probs)
  IN  Called("select_positions_to_mask", <<unc, r.mask_indices, None>>,
             select_positions_to_mask(self, env, unc, r.mask_indices, None))

CallIdentifyNanobodyCdrs ==
  \E seq \in NanobodySeqs :
    Called("identify_nanobody_cdrs", <<seq>>, Ok(identify_nanobody_cdrs(env, seq)))

CallCreateMaskedSequence ==
  \E positions \in PositionLists :
    LET seq == self.target_seq \o EOS_TEXT \o self.temp_pept_seq
    IN  Called("create_masked_sequence", <<seq, positions>>,
               create_masked_sequence(env, seq, positions))

Next ==
  \/ PostInit
  \/ RunGetPeptideSequence
  \/ RunGetLogprobs
  \/ RunFindPeptideStartIdx
  \/ RunSelectPositionsToMask
  \/ RunCreateMaskedSequence
  \/ RunGenerateOne
  \/ RunReturn
  \/ CallGetTemplateSequence
  \/ CallGetPeptideSequence
  \/ CallGetNanobodyCdrResidues
  \/ CallFindPeptideStartIdx
  \/ CallSelectPositionsToMask
  \/ CallIdentifyNanobodyCdrs
  \/ CallCreateMaskedSequence

Spec == Init /\ [][Next]_vars

\* run() is sequential code: the loop of generate_mutations takes its next
\* iteration and returns when the iterations are done.  Termination is
\* checked on the objects that differ in n_seq_out.
LiveInit == Init /\ <<self, env>> \in CountScenarios

LiveSpec ==
  LiveInit /\ [][Next]_vars /\ WF_vars(RunGenerateOne) /\ WF_vars(RunReturn)

\* a Generate object with its chains and CDRs in place; self holds its
\* attributes
GenInit ==
  /\ self \in GenerateSelfs
  /\ env = DefaultEnv
  /\ pc = "gen_ready"
  /\ err = NoErr
  /\ peptide_seq = <<>>
  /\ input_seq = <<>>
  /\ input_ids = <<>>
  /\ uncertainty = <<>>
  /\ mask_indices = <<>>
  /\ peptide_start_idx = 0
  /\ positions_to_mask = <<>>
  /\ masked_seq = <<>>
  /\ generated_sequences = <<>>
  /\ model_calls = 0
  /\ loaded = TRUE
  /\ model_input = <<>>
  /\ sampled_ids = <<>>
  /\ ret = NoRet

\* Generate.mask_inp_ab()
MaskInpAb ==
  /\ pc = "gen_ready"
  /\ self' = mask_inp_ab(self, self.cdrs_mut)
  /\ pc' = "gen_masked"
  /\ UNCHANGED << env, err, peptide_seq, input_seq, input_ids, uncertainty, mask_indices,
                  peptide_start_idx, positions_to_mask, masked_seq, generated_sequences,
                  model_calls, loaded, model_input, sampled_ids, ret >>

GenNext == MaskInpAb

GenSpec == GenInit /\ [][GenNext]_vars

-----------------------------------------------------------------------------
(* Properties *)

\* run() has selected positions_to_mask
Selected == pc \in {"run_mask", "run_generate", "returned"}

\* 0-based index of the <eos> separator written between target and peptide
SeparatorIdx == (IF env.tok_prefix THEN 1 ELSE 0) + Len(self.target_seq)

\* 0-based token indices of the residues of the peptide
PeptideResiduePositions ==
  {p \in (SeparatorIdx + 1)..(Len(input_ids) - 1) :
     /\ p <= SeparatorIdx + Len(peptide_seq)
     /\ input_ids[p + 1] \notin SpecialTokens}

\* the tokenizer adds no token of its own to the text
PlainTokenizer == ~env.tok_prefix /\ ~env.tok_suffix

CdrRule(s) == s.nanobody_cdr_regions # None /\ s.modality = "nanobody"
ResidueRule(s) == ~CdrRule(s) /\ s.residues_to_mutate # None
StrategyRule(s) == ~CdrRule(s) /\ s.residues_to_mutate = None

\* C1: in run(), every position of positions_to_mask is at or after
\* peptide_start_idx and is the position of a residue token of the peptide; no
\* token of the target, separator or other special token is selected.  Stated
\* for the CDR rule and a tokenizer that adds no token of its own, so that a
\* violation rests on the repository's code alone.
C1_OnlyPeptideMasked ==
  (Selected /\ PlainTokenizer /\ CdrRule(self)) =>
    \A i \in 1..Len(positions_to_mask) :
      /\ positions_to_mask[i] >= peptide_start_idx
      /\ positions_to_mask[i] \in PeptideResiduePositions

\* the outcome of run()'s call of select_positions_to_mask, once it is over
SelectDone ==
  Selected \/ (pc = "raised" /\ err.at = "select_positions_to_mask")
SelectOutcome ==
  IF Selected THEN Ok(positions_to_mask) ELSE Raise(err.exc)

\* select_positions_to_mask was called directly (without peptide_start_idx)
SelectCalled == ret.op = "select_positions_to_mask"

\* the token indices run() derives from a list of 0-based residue indices
AtPeptide(residues) == [i \in 1..Len(residues) |-> peptide_start_idx + residues[i]]

\* what the CDR rule alone yields in run()
CdrOutcome ==
  LET c == get_nanobody_cdr_residues(self, env)
  IN  IF c.exc # "none" THEN Raise(c.exc) ELSE Ok(AtPeptide(c.val))

\* the object with no CDR regions and no residues_to_mutate
StrategyOnly(s) == [s EXCEPT !.nanobody_cdr_regions = None, !.residues_to_mutate = None]

\* C2: select_positions_to_mask applies its rules in a fixed priority: with the
\* CDR rule in effect the outcome is that of the CDR lookup alone; otherwise,
\* with residues_to_mutate set, it is exactly the positions of those residues;
\* only when neither applies does the uncertainty strategy decide, and then
\* the outcome is that of the same object without the two fields
C2_RulePriority ==
  SelectDone =>
    /\ CdrRule(self) => SelectOutcome = CdrOutcome
    /\ ResidueRule(self) => SelectOutcome = Ok(AtPeptide(self.residues_to_mutate[1]))
    /\ StrategyRule(self) =>
         SelectOutcome = select_positions_to_mask(StrategyOnly(self), env, uncertainty,
                                                  mask_indices, Some(peptide_start_idx))

\* the CDR rule decided although residues_to_mutate was set as well
C2_Witness ==
  /\ Selected
  /\ CdrRule(self)
  /\ self.residues_to_mutate # None
  /\ positions_to_mask # <<>>
  /\ positions_to_mask # AtPeptide(self.residues_to_mutate[1])

\* the candidate peptide positions: the tokens at or after peptide_start_idx
\* that are not the mask token
Candidates ==
  {p \in 0..(Len(input_ids) - 1) : p >= peptide_start_idx /\ input_ids[p + 1] # MASK}

Masked == Elems(positions_to_mask)

\* floor(n * mask_ratio), mask_ratio in percent
FloorOfRatio(n) == (n * self.mask_ratio) \div 100

\* C3: with mask_strategy "top_k", no other rule in effect and n >= 1
\* candidates, exactly min(n, max(1, floor(n * mask_ratio))) distinct
\* candidates are selected, and no unselected candidate has a strictly higher
\* uncertainty than a selected one
C3_TopK ==
  (Selected /\ StrategyRule(self) /\ self.mask_strategy = "top_k" /\ Candidates # {}) =>
    LET n == Cardinality(Candidates)
    IN  /\ Len(positions_to_mask) = Min(n, Max(1, FloorOfRatio(n)))
        /\ Cardinality(Masked) = Len(positions_to_mask)
        /\ Masked \subseteq Candidates
        /\ \A u \in Candidates \ Masked : \A m \in Masked :
             uncertainty[u + 1] <= uncertainty[m + 1]

\* mask_ratio 0 still masks one position, the most uncertain of several
C3_Witness ==
  /\ Selected /\ StrategyRule(self) /\ self.mask_strategy = "top_k"
  /\ self.mask_ratio = 0
  /\ Len(positions_to_mask) = 1
  /\ \E u \in Candidates : uncertainty[u + 1] < uncertainty[positions_to_mask[1] + 1]

\* C4: with mask_strategy "threshold" and no other rule in effect, exactly the
\* candidates whose uncertainty is strictly greater than uncertainty_threshold
\* are selected, in ascending order of position
C4_Threshold ==
  (Selected /\ StrategyRule(self) /\ self.mask_strategy = "threshold") =>
    /\ Masked = {p \in Candidates : uncertainty[p + 1] > self.uncertainty_threshold}
    /\ \A i \in 1..(Len(positions_to_mask) - 1) :
         positions_to_mask[i] < positions_to_mask[i + 1]

\* a candidate at the threshold is left alone next to one above it
C4_Witness ==
  /\ Selected /\ StrategyRule(self) /\ self.mask_strategy = "threshold"
  /\ \E p \in Candidates \ Masked : uncertainty[p + 1] = self.uncertainty_threshold
  /\ Masked # {}

\* C5: with the CDR rule in effect on the nanobody template, as in the
\* examples, mask_ratio is the fraction of the CDR positions that is masked
\* (up to the rounding of one position)
C5_RatioOfCdrPositions ==
  (Selected /\ CdrRule(self) /\ self.use_template) =>
    LET n == Len(get_nanobody_cdr_residues(self, env).val)
        d == Len(positions_to_mask) * 100 - n * self.mask_ratio
    IN  d < 100 /\ d > -100

KnownStrategy(s) == s.mask_strategy \in {"top_k", "threshold", "entropy"}

C7_PostInitValidation ==
  pc # "new" =>
    IF self.temp_pept_seq = <<>> /\ ~self.use_template
    THEN pc = "raised" /\ err = [exc |-> "ValueError", at |-> "post_init"] /\ ~loaded
    ELSE err.at # "post_init" /\ loaded

C7_Witness ==
  /\ pc = "raised" /\ err = [exc |-> "ValueError", at |-> "post_init"] /\ ~loaded
  /\ self.temp_pept_seq = <<>> /\ ~self.use_template

\* a template exists for the object: custom_template, or one of the modality
HasTemplate(s) == s.custom_template # None \/ s.modality \in {"affibody", "nanobody", "affitin"}

\* C8: get_peptide_sequence returns the template whenever use_template is True
\* (also when temp_pept_seq is given), otherwise temp_pept_seq, and raises
\* ValueError when neither is available; with use_template, a modality of
\* MODALITY_TEMPLATES and no custom_template, peptide_seq of run()'s result is
\* that modality's template
C8_PeptideSequence ==
  /\ ret.op = "get_peptide_sequence" =>
       /\ (self.use_template /\ self.custom_template # None)
            => ret.out = Ok(self.custom_template[1])
       /\ (self.use_template /\ self.custom_template = None
             /\ self.modality \in DOMAIN MODALITY_TEMPLATES)
            => ret.out = Ok(MODALITY_TEMPLATES[self.modality])
       /\ (~self.use_template /\ self.temp_pept_seq # <<>>)
            => ret.out = Ok(self.temp_pept_seq)
       /\ (self.temp_pept_seq = <<>> /\ ~(self.use_template /\ HasTemplate(self)))
            => ret.out = Raise("ValueError")
  /\ (pc = "returned" /\ self.use_template /\ self.custom_template = None
        /\ self.modality \in {"affibody", "nanobody", "affitin"})
       => peptide_seq = MODALITY_TEMPLATES[self.modality]

\* run() returned the template although temp_pept_seq was given as well
C8_Witness ==
  /\ pc = "returned" /\ self.use_template /\ self.custom_template = None
  /\ self.modality = "affitin"
  /\ self.temp_pept_seq # <<>>
  /\ peptide_seq = TEMPLATE_AFFITIN

\* run() has computed peptide_seq
HasPeptide == pc \in {"run_logprobs", "run_find", "run_select", "run_mask",
                      "run_generate", "returned"}

\* C9: custom_template overrides the modality template for every modality,
\* known or unknown, in get_template_sequence and in peptide_seq of run() under
\* use_template; without it the result is MODALITY_TEMPLATES[modality], and an
\* unknown modality raises ValueError
C9_CustomTemplate ==
  /\ ret.op = "get_template_sequence" =>
       /\ self.custom_template # None => ret.out = Ok(self.custom_template[1])
       /\ (self.custom_template = None /\ self.modality \in DOMAIN MODALITY_TEMPLATES)
            => ret.out = Ok(MODALITY_TEMPLATES[self.modality])
       /\ (self.custom_template = None /\ self.modality \notin DOMAIN MODALITY_TEMPLATES)
            => ret.out = Raise("ValueError")
  /\ (HasPeptide /\ self.use_template /\ self.custom_template # None)
       => peptide_seq = self.custom_template[1]

\* a custom template was used in run() for a modality that has its own
C9_Witness ==
  /\ pc = "returned" /\ self.use_template /\ self.custom_template = Some(MYOWN)
  /\ self.modality = "nanobody"
  /\ peptide_seq = MYOWN

UnknownRegion(s) ==
  /\ s.nanobody_cdr_regions # None
  /\ \E i \in 1..Len(s.nanobody_cdr_regions[1]) :
       s.nanobody_cdr_regions[1][i] \notin {"CDR1", "CDR2", "CDR3"}

\* C10: get_nanobody_cdr_residues raises ValueError when modality is not
\* "nanobody", when nanobody_cdr_regions is None, or when a requested region is
\* not one of CDR1, CDR2, CDR3, with or without the numbering library
C10_CdrLookupErrors ==
  (/\ ret.op = "get_nanobody_cdr_residues"
   /\ \/ self.modality # "nanobody"
      \/ self.nanobody_cdr_regions = None
      \/ UnknownRegion(self))
    => ret.out = Raise("ValueError")

\* an unknown region next to a known one, the library present and working
C10_Witness ==
  /\ ret.op = "get_nanobody_cdr_residues"
  /\ self.modality = "nanobody" /\ UnknownRegion(self)
  /\ env.HAS_ABNUMBER /\ ~env.chain.raises
  /\ ret.out = Raise("ValueError")

\* the numbering library is absent, or raises on the sequence
LibraryFails == ~env.HAS_ABNUMBER \/ env.chain.raises

\* the residues of the hardcoded positions of the requested regions
HardcodedResidues(regions) ==
  {r \in 0..Len(TEMPLATE_NANOBODY) :
     \E i \in 1..Len(regions) :
       /\ NANOBODY_CDR_REGIONS_IMGT[regions[i]][1] <= r
       /\ r <= NANOBODY_CDR_REGIONS_IMGT[regions[i]][2]}

\* C11: when the numbering library is unavailable or raises, the CDR lookups
\* return exactly what the hardcoded positions give: get_nanobody_cdr_residues
\* the ascending residues of the requested regions (ValueError for an unknown
\* region), identify_nanobody_cdrs the dictionary of the hardcoded fallback;
\* no exception other than that ValueError reaches the caller
C11_LibraryFallback ==
  /\ (/\ ret.op = "get_nanobody_cdr_residues" /\ LibraryFails
      /\ CdrRule(self) /\ get_peptide_sequence(self).exc = "none")
       => IF UnknownRegion(self) THEN ret.out = Raise("ValueError")
          ELSE ret.out = Ok(SortedSeqOf(HardcodedResidues(self.nanobody_cdr_regions[1])))
  /\ (ret.op = "identify_nanobody_cdrs" /\ LibraryFails)
       => ret.out = Ok(identify_cdrs_fallback(ret.arg[1]))

\* the library is present and raises; the lookup returns the hardcoded CDR1
C11_Witness ==
  /\ ret.op = "get_nanobody_cdr_residues"
  /\ env.HAS_ABNUMBER /\ env.chain.raises
  /\ self.nanobody_cdr_regions = Some(<<"CDR1">>)
  /\ ret.out = Ok(PyRange(26, 36))

\* C12: every entry (start, end, sequence) returned by identify_nanobody_cdrs
\* satisfies 0 <= start <= end < len(nanobody_seq) and sequence =
\* nanobody_seq[start..end], also for sequences shorter than the hardcoded
\* positions
C12_CdrEntriesInBounds ==
  ret.op = "identify_nanobody_cdrs" =>
    \A c \in DOMAIN ret.out.val :
      LET t == ret.out.val[c]
      IN  /\ 0 <= t[1] /\ t[1] <= t[2] /\ t[2] < Len(ret.arg[1])
          /\ t[3] = PySlice(ret.arg[1], t[1], t[2] + 1)
          /\ Len(t[3]) = t[2] - t[1] + 1

\* run() has created masked_seq
MaskedDone == pc \in {"run_generate", "returned"}

\* the text the tokenizer's own tokens decode to, before and after the input
PrefixText == IF env.tok_prefix THEN CLS_TEXT ELSE <<>>
SuffixText == IF env.tok_suffix THEN EOS_TEXT ELSE <<>>

\* the text of the peptide with the residues at the 0-based positions in P
\* replaced by the mask token
PeptideMaskedAt(P) ==
  Decode([i \in 1..Len(peptide_seq) |-> IF (i - 1) \in P THEN MASK ELSE peptide_seq[i]],
         FALSE)

\* every index of R is a 0-based position of the peptide
InPeptide(R) == \A i \in 1..Len(R) : 0 <= R[i] /\ R[i] < Len(peptide_seq)

\* C13: with residues_to_mutate = R and no CDR rule in effect,
\* select_positions_to_mask returns [peptide_start_idx + r for r in R], in the
\* order and of the length of R, peptide_start_idx being the token index of
\* the first peptide residue; and for R a list of positions of the peptide,
\* masked_seq of run() is the input with exactly the peptide residues at the
\* positions in R replaced by the mask token
C13_ResiduesToMutate ==
  /\ (SelectDone /\ ResidueRule(self)) =>
       /\ peptide_start_idx = SeparatorIdx + 1
       /\ SelectOutcome.exc = "none"
       /\ Len(SelectOutcome.val) = Len(self.residues_to_mutate[1])
       /\ \A i \in 1..Len(self.residues_to_mutate[1]) :
            SelectOutcome.val[i] = peptide_start_idx + self.residues_to_mutate[1][i]
  /\ (ResidueRule(self) /\ InPeptide(self.residues_to_mutate[1])) =>
       /\ err.at # "create_masked_sequence"
       /\ MaskedDone =>
            masked_seq = PrefixText \o self.target_seq \o EOS_TEXT
                           \o PeptideMaskedAt(Elems(self.residues_to_mutate[1]))
                           \o SuffixText

\* residues 3 and 0 of HELV, in that order, behind a tokenizer that puts a
\* token before the text
C13_Witness ==
  /\ pc = "returned" /\ ResidueRule(self)
  /\ self.residues_to_mutate = Some(<<3, 0>>)
  /\ env.tok_prefix
  /\ positions_to_mask = <<7, 4>>
  /\ masked_seq = CLS_TEXT \o MK \o EOS_TEXT \o MASK_TEXT \o <<"E", "L">> \o MASK_TEXT
                    \o SuffixText

\* C14: every sequence of generated_sequences returned by run() has the
\* length of the peptide and does not contain the target sequence
C14_GeneratedIsPeptideVariant ==
  pc = "returned" =>
    \A i \in 1..Len(generated_sequences) :
      /\ Len(generated_sequences[i]) = Len(peptide_seq)
      /\ PyFind(generated_sequences[i], self.target_seq) = -1

\* generate_mutations has finished at least one iteration of its loop
Generated == MaskedDone /\ Len(generated_sequences) >= 1

\* the places (1-based) of the mask token in a token sequence
MaskPlaces(ids) == {i \in 1..Len(ids) : ids[i] = MASK}

\* C15 as claimed: the masked positions of a sequence are filled one after
\* another, the model output for a later masked position being computed from
\* an input that holds the tokens sampled at the earlier masked positions
\* (stated for a tokenizer that adds no token of its own)
C15_Autoregressive ==
  (Generated /\ PlainTokenizer) =>
    \A i \in MaskPlaces(Tokenize(env, masked_seq)) :
      (\E j \in MaskPlaces(Tokenize(env, masked_seq)) : j > i)
        => model_input[i] = sampled_ids[i]

\* C15 as amended: the re-sampler is not autoregressive; every iteration makes
\* one forward pass, on the masked input with all its mask tokens in place,
\* and the tokens of all masked positions are drawn from that one output
C15_OnePassPerSequence ==
  Generated =>
    /\ model_input = Tokenize(env, masked_seq)
    /\ model_calls = 1 + Len(generated_sequences)

\* a sequence with two or more masked positions was sampled
C15_Witness ==
  /\ pc = "returned" /\ Len(generated_sequences) = 1
  /\ Cardinality(MaskPlaces(model_input)) >= 2
  /\ MaskPlaces(sampled_ids) = {}

\* the number of sequences range(n_seq_out) gives
ExpectedCount == Max(0, self.n_seq_out)

\* C16: generate_mutations terminates and returns exactly n_seq_out sequences
\* (none when n_seq_out <= 0), with one forward pass of the model per returned
\* sequence (model_calls also counts the pass of get_logprobs), for any number
\* of masked positions
C16_GenerateCount ==
  /\ [](MaskedDone => Len(generated_sequences) <= ExpectedCount)
  /\ [](pc = "returned" =>
          /\ Len(generated_sequences) = ExpectedCount
          /\ model_calls = 1 + ExpectedCount)
  /\ (pc = "run_generate" ~> pc = "returned")

\* the largest n_seq_out on an input without a masked position
C16_Witness ==
  /\ pc = "returned"
  /\ self.n_seq_out = MaxSeqOut
  /\ Len(generated_sequences) = MaxSeqOut
  /\ model_calls = 1 + MaxSeqOut
  /\ positions_to_mask = <<>> /\ MaskPlaces(model_input) = {}

\* C17: in every iteration the model is given the same masked input, and
\* sampled_ids differs from it only where it holds the mask token; the
\* generated sequence is the text of sampled_ids
C17_OnlyMasksResampled ==
  Generated =>
    /\ model_input = Tokenize(env, masked_seq)
    /\ Len(sampled_ids) = Len(model_input)
    /\ \A i \in 1..Len(model_input) :
         IF model_input[i] = MASK THEN sampled_ids[i] \in SampleVocab
         ELSE sampled_ids[i] = model_input[i]
    /\ generated_sequences[Len(generated_sequences)] = Decode(sampled_ids, TRUE)

\* two different samples were drawn from the same masked input
C17_Witness ==
  /\ pc = "returned" /\ Len(generated_sequences) = 2
  /\ generated_sequences[1] # generated_sequences[2]
  /\ MaskPlaces(model_input) # {}
  /\ \E i \in 1..Len(model_input) : model_input[i] # MASK /\ sampled_ids[i] = model_input[i]

\* run() has called get_logprobs
LogprobsDone ==
  \/ pc \in {"run_find", "run_select", "run_mask", "run_generate", "returned"}
  \/ pc = "raised" /\ err.at \in {"select_positions_to_mask", "create_masked_sequence"}

\* C18: the mask_indices returned by get_logprobs are exactly the indices of
\* the non-special tokens: no index of <eos>, of a start or end token or of a
\* mask token, and every index of a residue token
C18_MaskIndicesNonSpecial ==
  LogprobsDone =>
    Elems(mask_indices) =
      {i \in 0..(Len(input_ids) - 1) : input_ids[i + 1] \notin SpecialTokens}

\* C19: with mask_strategy "entropy" and no other rule in effect, the selected
\* positions follow the uncertainty: no unselected candidate has a strictly
\* higher uncertainty than a selected one
C19_EntropyByUncertainty ==
  (Selected /\ StrategyRule(self) /\ self.mask_strategy = "entropy" /\ Candidates # {}) =>
    /\ Masked \subseteq Candidates
    /\ \A u \in Candidates \ Masked : \A m \in Masked :
         uncertainty[u + 1] <= uncertainty[m + 1]

\* the tokens a masked text stands for: the tokens of seq with the mask token
\* at the listed 0-based positions
MaskedAt(ids, positions) ==
  [i \in 1..Len(ids) |-> IF (i - 1) \in Elems(positions) THEN MASK ELSE ids[i]]

\* the tokens of a text, none added
TokensOf(text) == TokScan(text, 0, Len(text))

\* every listed position is a 0-based index of the token sequence
Inside(ids, positions) ==
  \A i \in 1..Len(positions) : 0 <= positions[i] /\ positions[i] < Len(ids)

\* C20: for positions inside the token sequence, create_masked_sequence
\* yields the text of a token sequence of the same length with the mask token
\* at exactly the listed positions and the original token elsewhere, called
\* directly or by run(); the step leaves input_seq, its tokens and
\* positions_to_mask as they were
C20_CreateMaskedSequence ==
  /\ [](ret.op = "create_masked_sequence" /\ Inside(Tokenize(env, ret.arg[1]), ret.arg[2])
          => /\ ret.out.exc = "none"
             /\ Len(TokensOf(ret.out.val)) = Len(Tokenize(env, ret.arg[1]))
             /\ TokensOf(ret.out.val) = MaskedAt(Tokenize(env, ret.arg[1]), ret.arg[2]))
  /\ [](MaskedDone => /\ Inside(input_ids, positions_to_mask)
                      /\ TokensOf(masked_seq) = MaskedAt(input_ids, positions_to_mask))
  /\ [][pc = "run_mask" => /\ input_seq' = input_seq
                           /\ input_ids' = input_ids
                           /\ positions_to_mask' = positions_to_mask]_vars

\* positions given out of order and twice
C20_Witness ==
  /\ ret.op = "create_masked_sequence"
  /\ ret.arg[2] = <<4, 3, 4>>
  /\ ret.out.exc = "none"
  /\ MaskPlaces(TokensOf(ret.out.val)) = {4, 5}

\* the places (1-based) of the token positions listed in positions_to_mask
MaskedPlaces == {p + 1 : p \in Elems(positions_to_mask)}

Shift == IF env.tok_prefix THEN 1 ELSE 0
Trail == IF env.tok_suffix THEN 1 ELSE 0

\* a token sequence of generate_mutations without the tokens the tokenizer
\* added when masked_seq was tokenized again
Core(ids) == SubSeq(ids, 1 + Shift, Len(ids) - Trail)

Mutated(chain_ids) == {c \in Elems(self.cdrs_mut) : c \in chain_ids}

\* the number of residues of the CDRs in C
RECURSIVE CdrResidues(_)
CdrResidues(C) ==
  IF C = {} THEN 0
  ELSE LET c == CHOOSE x \in C : TRUE
       IN  Len(self.cdrdict[c]) + CdrResidues(C \ {c})

\* C22: mask_inp_ab replaces every CDR to mutate by as many mask tokens as it
\* has residues and keeps the residues outside it, for the heavy chain as for
\* the light chain: after masking, each chain has as many mask tokens as its
\* mutated CDRs have residues, and residues plus mask tokens are as many as
\* the residues of the original chain
C22_MaskKeepsChainLength ==
  pc = "gen_masked" =>
    /\ Cardinality(MaskPlaces(TokensOf(self.L_seq))) = CdrResidues(Mutated(self.cdrs_light))
    /\ Len(TokensOf(self.L_seq)) = Len(self.original_petide)
    /\ Cardinality(MaskPlaces(TokensOf(self.H_seq))) = CdrResidues(Mutated(self.cdrs_heavy))
    /\ Len(TokensOf(self.H_seq)) = Len(self.target_seq)

====
